---- MODULE Spec2Model ----
(***************************************************************************)
(* Model of tqqq_tasty.py: the monthly TQQQ rebalancing job.               *)
(*                                                                         *)
(* One process (the scheduler loop) runs scheduled_job once a day; on the  *)
(* day the schedule gate is_last_trading_day returns true it runs main():  *)
(* get_session_token -> rebalance -> execute_order -> send_email_update.   *)
(* The environment (login endpoint, positions endpoint, orders endpoint,   *)
(* SMTP relay, the broker filling an order, the wall clock) is modelled as *)
(* nondeterministic choice.  Money and share counts are integers; the      *)
(* clock counts hours from the first midnight of the month.                *)
(***************************************************************************)
EXTENDS Integers, Sequences, FiniteSets, TLC

\* ------------------------------------------------------------------ bounds
\* Number of days of the modelled month; day MonthLen + 1 is the first day
\* of the next month.
MonthLen == 3
\* Hours the clock advances in one Tick.
ClockStep == 12
\* Clock steps that may elapse while one run of main() is in progress.
MaxRunTicks == 1
\* Largest number of shares (long or short) held at start.
MaxQty == 4

\* ------------------------------------------------------- program constants
\* fixed_allocation = 2000
fixed_allocation == 2000
\* timedelta(hours=24)
TokenTTL == 24
\* datetime.date rolls over every 24 hours of the clock.
HoursPerDay == 24

\* Last prices the positions endpoint may report for a held position.
Prices == {300, 700, 2100}

\* Python's None, and a present value, for values that may be None.
None == << >>
Some(x) == << x >>

Abs(x) == IF x < 0 THEN -x ELSE x

VARIABLES
    now,            \* wall clock, in hours
    trading,        \* the exchange calendar: valid trading days, as day numbers
    job_day,        \* last day on which the scheduler ran scheduled_job
    gate_true,      \* days on which is_last_trading_day returned True
    store,          \* the shelf: a dict with keys session_token, token_expiry
    issued,         \* issued[t]: hour at which the login endpoint issued token t
    listed,         \* the account's holdings list has a TQQQ item
    acct_qty,       \* signed share quantity of that item
    price,          \* its close-price
    pc,             \* control point of the process
    caller,         \* who called get_session_token: "main" or "notify"
    entry,          \* store and clock as get_session_token read them
    logins,         \* login requests made by the current get_session_token call
    new_session_token, new_token_expiry,   \* locals of get_session_token
    gst_result,     \* its return value (None or Some(token))
    gst_raised,     \* it raised instead of returning
    session_token,  \* main's local
    notify_token,   \* send_email_update's local session_token
    quantity, current_price,    \* rebalance's locals
    action, shares_to_trade,    \* main's locals
    error_message, trade_info,  \* arguments of send_email_update
    notified,       \* invocations of send_email_update in the current run
    orders_posted,  \* calls of the orders endpoint in the current run
    order,          \* the order the broker accepted (None or Some(record))
    filled,         \* the broker filled it
    mail,           \* emails handed to server.sendmail in the current run
    smtp_failed,    \* the mail transport refused (connect, login or sendmail)
    failed,         \* components that failed in main's own calls
    exit_path,      \* how main returned
    run_ticks       \* clock steps elapsed during the current run

envVars   == << now, trading, job_day, gate_true, listed, acct_qty, price >>
storeVars == << store, issued >>
gstVars   == << caller, entry, logins, new_session_token, new_token_expiry,
                gst_result, gst_raised >>
mainVars  == << session_token, notify_token, quantity, current_price, action,
                shares_to_trade, error_message, trade_info, notified,
                orders_posted, order, filled, mail, smtp_failed, failed,
                exit_path, run_ticks >>
vars == << envVars, storeVars, gstVars, mainVars, pc >>

\* ------------------------------------------------------------ schedule gate
\* datetime.now().date(), as a day number of the month.
Today == (now \div HoursPerDay) + 1

\* nyse.valid_days(start_date, end_date): the calendar's valid trading days
\* between the two dates, both included, in ascending order.
RECURSIVE valid_days(_, _)
valid_days(start_date, end_date) ==
    IF start_date > end_date THEN << >>
    ELSE IF end_date \in trading
         THEN Append(valid_days(start_date, end_date - 1), end_date)
         ELSE valid_days(start_date, end_date - 1)

\* is_last_trading_day(), evaluated on the day `today`.
is_last_trading_day(today) ==
    LET next_month   == MonthLen + 1
        trading_days == valid_days(today, next_month)
    IN  IF \E i \in 1..Len(trading_days) : trading_days[i] = today
        THEN today = trading_days[Len(trading_days)]
        ELSE FALSE

\* ---------------------------------------------------------- position reader
\* The TQQQ item of the positions response: the API reports a magnitude and
\* a direction.
ApiItem == [qty       |-> Abs(acct_qty),
            direction |-> IF acct_qty < 0 THEN "Short" ELSE "Long",
            close     |-> price]

\* get_position(session_token) on a well-formed response: (quantity, price).
\* The unrealized PnL it also returns is read by no decision and is left out.
get_position ==
    IF ~listed
    THEN [quantity |-> 0, price |-> 0]
    ELSE [quantity |-> IF ApiItem.direction = "Short" THEN -ApiItem.qty
                       ELSE ApiItem.qty,
          price    |-> ApiItem.close]

\* --------------------------------------------------------- rebalance policy
NoAction == "None"

\* A sizing that rounds up to the next whole share instead of down.
SharesRoundedUp(value_difference, p) == (Abs(value_difference) + p - 1) \div p

\* int(abs(value_difference) / current_price), current_price # 0.
SharesToTrade(value_difference, p) == Abs(value_difference) \div p

\* A policy without the shares_to_trade == 0 test: a dust difference yields an
\* order of zero shares.
RebalanceNoDustCheck(q, p) ==
    LET value_difference == fixed_allocation - Abs(q) * p
    IN  IF p = 0
        THEN [raised |-> TRUE, action |-> NoAction, shares |-> 0]
        ELSE [raised |-> FALSE,
              action |-> IF value_difference > 0 THEN "BUY" ELSE "SELL",
              shares |-> SharesToTrade(value_difference, p)]

\* A policy that guards the division: a zero price is reported as "no trade
\* needed" instead of raising.
RebalanceZeroPriceNoop(q, p) ==
    LET value_difference == fixed_allocation - Abs(q) * p
        n == IF p = 0 THEN 0 ELSE SharesToTrade(value_difference, p)
    IN  IF n = 0
        THEN [raised |-> FALSE, action |-> NoAction, shares |-> 0]
        ELSE [raised |-> FALSE,
              action |-> IF value_difference > 0 THEN "BUY" ELSE "SELL",
              shares |-> n]

\* A policy with the comparison inverted: sells when under-allocated, buys
\* when over-allocated.
RebalanceInverted(q, p) ==
    LET value_difference == fixed_allocation - Abs(q) * p
    IN  IF p = 0
        THEN [raised |-> TRUE, action |-> NoAction, shares |-> 0]
        ELSE LET n == SharesToTrade(value_difference, p)
             IN  IF n = 0
                 THEN [raised |-> FALSE, action |-> NoAction, shares |-> 0]
                 ELSE [raised |-> FALSE,
                       action |-> IF value_difference < 0 THEN "BUY" ELSE "SELL",
                       shares |-> n]

\* rebalance(session_token) after the position read returned (q, p):
\* a ZeroDivisionError when p = 0, else (action, shares_to_trade).
Rebalance(q, p) ==
    LET current_value    == Abs(q) * p
        value_difference == fixed_allocation - current_value
    IN  IF p = 0
        THEN [raised |-> TRUE, action |-> NoAction, shares |-> 0]
        ELSE LET n == SharesToTrade(value_difference, p)
             IN  IF n = 0
                 THEN [raised |-> FALSE, action |-> NoAction, shares |-> 0]
                 ELSE IF value_difference > 0
                      THEN [raised |-> FALSE, action |-> "BUY", shares |-> n]
                      ELSE [raised |-> FALSE, action |-> "SELL", shares |-> n]

\* ------------------------------------------------------------- initial state
\* The shelf survives the process: at start it is empty or holds the token
\* and expiry an earlier process stored.  db.get(key) is None for a key the
\* shelf does not hold.
EmptyStore == [session_token |-> None, token_expiry |-> None]

InitStores ==
    { EmptyStore } \cup
    { [session_token |-> Some(1), token_expiry |-> Some(e)] :
          e \in {ClockStep, 3 * ClockStep} }

Init ==
    /\ now = 0
    /\ trading \in SUBSET (1..(MonthLen + 1))
    /\ job_day = 0
    /\ gate_true = {}
    /\ store \in InitStores
    /\ issued = IF store = EmptyStore THEN << >>
                ELSE << store.token_expiry[1] - TokenTTL >>
    /\ listed \in BOOLEAN
    /\ acct_qty \in IF listed THEN (-MaxQty)..MaxQty ELSE {0}
    /\ price \in Prices
    /\ pc = "idle"
    /\ caller = "main"
    /\ entry = [store |-> EmptyStore, now |-> 0]
    /\ logins = 0
    /\ new_session_token = None
    /\ new_token_expiry = None
    /\ gst_result = None
    /\ gst_raised = FALSE
    /\ session_token = None
    /\ notify_token = None
    /\ quantity = 0
    /\ current_price = 0
    /\ action = NoAction
    /\ shares_to_trade = 0
    /\ error_message = ""
    /\ trade_info = FALSE
    /\ notified = 0
    /\ orders_posted = 0
    /\ order = None
    /\ filled = FALSE
    /\ mail = << >>
    /\ smtp_failed = FALSE
    /\ failed = {}
    /\ exit_path = "none"
    /\ run_ticks = 0

\* ---------------------------------------------------------------- the clock
InRun == pc # "idle"

\* Time passes.  The scheduler runs its job every day, so the date does not
\* roll over before the day's scheduled_job has run.
Tick ==
    /\ now + ClockStep < MonthLen * HoursPerDay
    /\ \/ job_day = Today
       \/ (now + ClockStep) \div HoursPerDay = now \div HoursPerDay
    /\ InRun => run_ticks < MaxRunTicks
    /\ now' = now + ClockStep
    /\ run_ticks' = IF InRun THEN run_ticks + 1 ELSE run_ticks
    /\ UNCHANGED << trading, job_day, gate_true, listed, acct_qty, price,
                    storeVars, gstVars, pc, session_token, notify_token,
                    quantity, current_price, action, shares_to_trade,
                    error_message, trade_info, notified, orders_posted, order,
                    filled, mail, smtp_failed, failed, exit_path >>

\* ------------------------------------------------------------ scheduled_job
\* scheduled_job() on a day the gate refuses: main() is not run.
ScheduledJobSkips ==
    /\ pc = "idle"
    /\ job_day < Today
    /\ ~is_last_trading_day(Today)
    /\ job_day' = Today
    /\ UNCHANGED << now, trading, gate_true, listed, acct_qty, price,
                    storeVars, gstVars, mainVars, pc >>

\* scheduled_job() on a day the gate accepts: main() starts, and its first
\* statement calls get_session_token(ENVIRONMENT).
ScheduledJobRuns ==
    /\ pc = "idle"
    /\ job_day < Today
    /\ is_last_trading_day(Today)
    /\ job_day' = Today
    /\ gate_true' = gate_true \cup {Today}
    /\ pc' = "gst_read"
    /\ caller' = "main"
    /\ session_token' = None
    /\ notify_token' = None
    /\ quantity' = 0
    /\ current_price' = 0
    /\ action' = NoAction
    /\ shares_to_trade' = 0
    /\ error_message' = ""
    /\ trade_info' = FALSE
    /\ notified' = 0
    /\ orders_posted' = 0
    /\ order' = None
    /\ filled' = FALSE
    /\ mail' = << >>
    /\ smtp_failed' = FALSE
    /\ failed' = {}
    /\ exit_path' = "none"
    /\ run_ticks' = 0
    /\ UNCHANGED << now, trading, listed, acct_qty, price, storeVars, entry,
                    logins, new_session_token, new_token_expiry, gst_result,
                    gst_raised >>

\* -------------------------------------------------------- get_session_token
\* A cache test that still accepts the token at the instant it expires.
CacheValidInclusive(db, t) ==
    /\ db.session_token # None
    /\ db.token_expiry # None
    /\ t <= db.token_expiry[1]

\* The cached token is usable: both fields are set and now < token_expiry.
CacheValid(db, t) ==
    /\ db.session_token # None
    /\ db.token_expiry # None
    /\ t < db.token_expiry[1]

\* Lines 66-74: read the shelf; return the cached token when it is usable.
GstRead ==
    /\ pc = "gst_read"
    /\ entry' = [store |-> store, now |-> now]
    /\ logins' = 0
    /\ gst_raised' = FALSE
    /\ new_session_token' = None
    /\ new_token_expiry' = None
    /\ IF CacheValid(store, now)
       THEN /\ gst_result' = store.session_token
            /\ pc' = "gst_ret"
       ELSE /\ gst_result' = None
            /\ pc' = "gst_login"
    /\ UNCHANGED << envVars, storeVars, caller, mainVars >>

\* Lines 76-102: the login request answers 201 with a fresh token.
GstLoginCreated ==
    /\ pc = "gst_login"
    /\ logins' = logins + 1
    /\ issued' = Append(issued, now)
    /\ new_session_token' = Some(Len(issued) + 1)
    /\ new_token_expiry' = Some(now + TokenTTL)
    /\ pc' = "gst_store_token"
    /\ UNCHANGED << envVars, store, caller, entry, gst_result, gst_raised,
                    mainVars >>

\* Lines 94-97, 111-114: the login request answers another status.
GstLoginRejected ==
    /\ pc = "gst_login"
    /\ logins' = logins + 1
    /\ gst_result' = None
    /\ pc' = "gst_ret"
    /\ UNCHANGED << envVars, storeVars, caller, entry, new_session_token,
                    new_token_expiry, gst_raised, mainVars >>

\* Line 94: requests.post raises (no connection, timeout).
GstLoginRaises ==
    /\ pc = "gst_login"
    /\ logins' = logins + 1
    /\ gst_raised' = TRUE
    /\ pc' = "gst_ret"
    /\ UNCHANGED << envVars, storeVars, caller, entry, new_session_token,
                    new_token_expiry, gst_result, mainVars >>

\* Line 106: db['session_token'] = new_session_token.
GstStoreToken ==
    /\ pc = "gst_store_token"
    /\ store' = [store EXCEPT !.session_token = new_session_token]
    /\ pc' = "gst_store_expiry"
    /\ UNCHANGED << envVars, issued, gstVars, mainVars >>

\* Lines 107-110: db['token_expiry'] = new_token_expiry; return the token.
GstStoreExpiry ==
    /\ pc = "gst_store_expiry"
    /\ store' = [store EXCEPT !.token_expiry = new_token_expiry]
    /\ gst_result' = new_session_token
    /\ pc' = "gst_ret"
    /\ UNCHANGED << envVars, issued, caller, entry, logins, new_session_token,
                    new_token_expiry, gst_raised, mainVars >>

\* --------------------------------------------------------------------- main
E_TOKEN      == "Failed to get session token"
E_ORDER      == "Error executing order"
E_UNEXPECTED == "Unexpected error in rebalancing process"

\* The call send_email_update(trade_info, error_message): control enters the
\* Notifier's try block.
Notify(msg, ti) ==
    /\ notified' = notified + 1
    /\ error_message' = msg
    /\ trade_info' = ti
    /\ pc' = "notify_smtp"

\* Lines 325-330 and 361-365: get_session_token came back to main.
MainAfterToken ==
    /\ pc = "gst_ret"
    /\ caller = "main"
    /\ IF gst_raised
       THEN /\ failed' = failed \cup {"session"}
            /\ exit_path' = "error"
            /\ session_token' = session_token
            /\ Notify(E_UNEXPECTED, FALSE)
       ELSE IF gst_result = None
       THEN /\ failed' = failed \cup {"session"}
            /\ exit_path' = "token_fail"
            /\ session_token' = gst_result
            /\ Notify(E_TOKEN, FALSE)
       ELSE /\ session_token' = gst_result
            /\ pc' = "rebalance"
            /\ UNCHANGED << failed, exit_path, notified, error_message,
                            trade_info >>
    /\ UNCHANGED << envVars, storeVars, gstVars, notify_token, quantity,
                    current_price, action, shares_to_trade, orders_posted,
                    order, filled, mail, smtp_failed, run_ticks >>

\* Lines 333, 182, 135-136 and 361-365: the positions request of rebalance
\* raises (transport failure, or a response without the expected fields).
RebalanceReadFails ==
    /\ pc = "rebalance"
    /\ failed' = failed \cup {"position"}
    /\ exit_path' = "error"
    /\ Notify(E_UNEXPECTED, FALSE)
    /\ UNCHANGED << envVars, storeVars, gstVars, session_token, notify_token,
                    quantity, current_price, action, shares_to_trade,
                    orders_posted, order, filled, mail, smtp_failed,
                    run_ticks >>

\* Lines 333-338 and 361-365 with rebalance (167-200): the position is read
\* and the policy decides.
RebalanceDecides ==
    /\ pc = "rebalance"
    /\ LET pos == get_position
           d   == Rebalance(pos.quantity, pos.price)
       IN  /\ quantity' = pos.quantity
           /\ current_price' = pos.price
           /\ IF d.raised
              THEN /\ failed' = failed \cup {"policy"}
                   /\ exit_path' = "error"
                   /\ Notify(E_UNEXPECTED, FALSE)
                   /\ UNCHANGED << action, shares_to_trade >>
              ELSE /\ action' = d.action
                   /\ shares_to_trade' = d.shares
                   /\ IF d.action = NoAction
                      THEN /\ exit_path' = "noop"
                           /\ Notify("", FALSE)
                           /\ UNCHANGED failed
                      ELSE /\ pc' = "execute"
                           /\ UNCHANGED << failed, exit_path, notified,
                                           error_message, trade_info >>
    /\ UNCHANGED << envVars, storeVars, gstVars, session_token, notify_token,
                    orders_posted, order, filled, mail, smtp_failed,
                    run_ticks >>

\* ------------------------------------------------------------ execute_order
\* Lines 225-244: the leg of the order payload.
OrderLeg(a, n) ==
    [action   |-> IF a = "BUY" THEN "Buy to Open" ELSE "Sell to Close",
     quantity |-> n]

\* Lines 343, 217 and 355-359: the price re-read of execute_order raises
\* before any order is posted.
ExecuteReadFails ==
    /\ pc = "execute"
    /\ failed' = failed \cup {"order"}
    /\ exit_path' = "order_fail"
    /\ Notify(E_ORDER, FALSE)
    /\ UNCHANGED << envVars, storeVars, gstVars, session_token, notify_token,
                    quantity, current_price, action, shares_to_trade,
                    orders_posted, order, filled, mail, smtp_failed,
                    run_ticks >>

\* Lines 247-253, 349 and 355-359: the order is posted and the call raises
\* (transport failure, unreadable response); the broker may or may not have
\* taken the order.
ExecutePostFails ==
    /\ pc = "execute"
    /\ orders_posted' = orders_posted + 1
    /\ \E accepted \in BOOLEAN :
          order' = IF accepted THEN Some(OrderLeg(action, shares_to_trade))
                   ELSE None
    /\ failed' = failed \cup {"order"}
    /\ exit_path' = "order_fail"
    /\ Notify(E_ORDER, FALSE)
    /\ UNCHANGED << envVars, storeVars, gstVars, session_token, notify_token,
                    quantity, current_price, action, shares_to_trade, filled,
                    mail, smtp_failed, run_ticks >>

\* Lines 343-353: the order is posted and the response is returned.
ExecutePostOk ==
    /\ pc = "execute"
    /\ orders_posted' = orders_posted + 1
    /\ order' = Some(OrderLeg(action, shares_to_trade))
    /\ exit_path' = "submitted"
    /\ Notify("", TRUE)
    /\ UNCHANGED << envVars, storeVars, gstVars, session_token, notify_token,
                    quantity, current_price, action, shares_to_trade, filled,
                    mail, smtp_failed, failed, run_ticks >>

\* The broker fills the accepted order in full: a buy adds the shares to the
\* signed quantity, a sell takes them off.
Fill ==
    /\ order # None
    /\ ~filled
    /\ filled' = TRUE
    /\ listed' = TRUE
    /\ acct_qty' = IF order[1].action = "Buy to Open"
                   THEN acct_qty + order[1].quantity
                   ELSE acct_qty - order[1].quantity
    /\ UNCHANGED << now, trading, job_day, gate_true, price, storeVars,
                    gstVars, pc, session_token, notify_token, quantity,
                    current_price, action, shares_to_trade, error_message,
                    trade_info, notified, orders_posted, order, mail,
                    smtp_failed, failed, exit_path, run_ticks >>

\* -------------------------------------------------------- send_email_update
\* Lines 267-272: the SMTP session opens; the Notifier asks for a token.
NotifySmtpOk ==
    /\ pc = "notify_smtp"
    /\ pc' = "gst_read"
    /\ caller' = "notify"
    /\ UNCHANGED << envVars, storeVars, entry, logins, new_session_token,
                    new_token_expiry, gst_result, gst_raised, mainVars >>

\* A Notifier without its try/except: the SMTP failure propagates to the
\* caller's handler, which calls send_email_update again (lines 355-358 for
\* the call at 353, lines 361-364 for the calls at 329, 337 and 358); from the
\* call at 364 it leaves main.
NotifySmtpFailsPropagates ==
    /\ pc = "notify_smtp"
    /\ smtp_failed' = TRUE
    /\ IF error_message = E_UNEXPECTED
       THEN /\ pc' = "idle"
            /\ UNCHANGED << notified, error_message, trade_info >>
       ELSE Notify(IF exit_path = "submitted" THEN E_ORDER ELSE E_UNEXPECTED,
                   FALSE)
    /\ UNCHANGED << envVars, storeVars, gstVars, session_token, notify_token,
                    quantity, current_price, action, shares_to_trade,
                    orders_posted, order, filled, mail, failed, exit_path,
                    run_ticks >>

\* Lines 267-269 and 312-313: connect, starttls or login raises; the
\* exception is logged and swallowed.
NotifySmtpFails ==
    /\ pc = "notify_smtp"
    /\ smtp_failed' = TRUE
    /\ pc' = "idle"
    /\ UNCHANGED << envVars, storeVars, gstVars, session_token, notify_token,
                    quantity, current_price, action, shares_to_trade,
                    error_message, trade_info, notified, orders_posted, order,
                    filled, mail, failed, exit_path, run_ticks >>

\* Lines 272 and 312-313: get_session_token came back to the Notifier.
NotifyAfterToken ==
    /\ pc = "gst_ret"
    /\ caller = "notify"
    /\ IF gst_raised
       THEN /\ pc' = "idle"
            /\ UNCHANGED notify_token
       ELSE /\ notify_token' = gst_result
            /\ pc' = "notify_position"
    /\ UNCHANGED << envVars, storeVars, gstVars, session_token, quantity,
                    current_price, action, shares_to_trade, error_message,
                    trade_info, notified, orders_posted, order, filled, mail,
                    smtp_failed, failed, exit_path, run_ticks >>

\* Lines 273-305 and 312-313: the position read (or the formatting of the
\* body) raises; the exception is logged and swallowed, nothing is sent.
\* What the positions endpoint answers to a request made with a None token
\* is the endpoint's choice: both outcomes are kept for every token.
NotifyPositionFails ==
    /\ pc = "notify_position"
    /\ pc' = "idle"
    /\ UNCHANGED << envVars, storeVars, gstVars, mainVars >>

\* Lines 273-310: the position is read, the email is composed and handed to
\* server.sendmail, which accepts it.
NotifySendOk ==
    /\ pc = "notify_position"
    /\ mail' = Append(mail, [error |-> error_message, trade |-> trade_info,
                             shares |-> get_position.quantity])
    /\ pc' = "idle"
    /\ UNCHANGED << envVars, storeVars, gstVars, session_token, notify_token,
                    quantity, current_price, action, shares_to_trade,
                    error_message, trade_info, notified, orders_posted, order,
                    filled, smtp_failed, failed, exit_path, run_ticks >>

\* Lines 308 and 312-313: server.sendmail raises; logged and swallowed.
NotifySendFails ==
    /\ pc = "notify_position"
    /\ smtp_failed' = TRUE
    /\ pc' = "idle"
    /\ UNCHANGED << envVars, storeVars, gstVars, session_token, notify_token,
                    quantity, current_price, action, shares_to_trade,
                    error_message, trade_info, notified, orders_posted, order,
                    filled, mail, failed, exit_path, run_ticks >>

\* ------------------------------------------------------------ specification
Next ==
    \/ Tick
    \/ ScheduledJobSkips
    \/ ScheduledJobRuns
    \/ GstRead
    \/ GstLoginCreated
    \/ GstLoginRejected
    \/ GstLoginRaises
    \/ GstStoreToken
    \/ GstStoreExpiry
    \/ MainAfterToken
    \/ RebalanceReadFails
    \/ RebalanceDecides
    \/ ExecuteReadFails
    \/ ExecutePostFails
    \/ ExecutePostOk
    \/ Fill
    \/ NotifySmtpOk
    \/ NotifySmtpFails
    \/ NotifyAfterToken
    \/ NotifyPositionFails
    \/ NotifySendOk
    \/ NotifySendFails

Spec == Init /\ [][Next]_vars

\* ------------------------------------------------------------------- claims
\* main() has returned.
RunEnded == pc = "idle" /\ exit_path # "none"

\* Control is inside send_email_update (or in a call it made).
InNotifier ==
    \/ pc \in {"notify_smtp", "notify_position"}
    \/ pc \in {"gst_read", "gst_login", "gst_store_token", "gst_store_expiry",
               "gst_ret"} /\ caller = "notify"

\* C1: in every run of main, whichever exit path is taken, send_email_update
\* is invoked exactly once before main returns: never twice at any point of
\* the run, and once when the run has ended.
NotifierExactlyOnce ==
    /\ notified <= 1
    /\ RunEnded => notified = 1

\* A run that ended through the order-submission failure path.
OrderFailureRunEnded ==
    RunEnded /\ exit_path = "order_fail" /\ orders_posted = 1

\* C2: a run in which the Session Manager, Position Reader, Rebalance Policy
\* or Order Submitter failed, and in which the mail transport refused
\* nothing, has handed an email carrying the error message to sendmail by
\* the time it ends.
NeverSilent ==
    (RunEnded /\ failed # {} /\ ~smtp_failed)
        => \E i \in 1..Len(mail) : mail[i].error = error_message /\ error_message # ""

\* The last valid trading day of the month (of a month that has one).
LastTradingDay ==
    CHOOSE d \in trading \cap (1..MonthLen) :
        \A e \in trading \cap (1..MonthLen) : e <= d

\* C3: once is_last_trading_day has been evaluated on every day of a month
\* that has a valid trading day, it has returned true on exactly one day, the
\* month's last valid trading day.
GateFiresOnLastTradingDay ==
    (job_day = MonthLen /\ trading \cap (1..MonthLen) # {})
        => gate_true = {LastTradingDay}

\* C4: in a run the orders endpoint is called at most once, and only after a
\* buy or sell decision of more than 0 shares; a run that ended in no-op or
\* failed before submission called it never, and no step of the Notifier
\* calls it.
AtMostOneOrder ==
    /\ [](/\ orders_posted <= 1
          /\ orders_posted = 1 =>
                 action \in {"BUY", "SELL"} /\ shares_to_trade > 0
          /\ (RunEnded /\ exit_path \in {"noop", "token_fail", "error"}) =>
                 orders_posted = 0 /\ order = None)
    /\ [][InNotifier => orders_posted' = orders_posted /\ order' = order]_vars

\* The Notifier runs after an order was posted.
NotifierAfterOrder == InNotifier /\ orders_posted = 1 /\ pc = "notify_position"

\* C5: once the decided order has filled in full at the observed price, the
\* position value |quantity| x price is within one share price of the target
\* allocation, for long and short positions alike.
OrderCorrectsDiscrepancy ==
    filled => Abs(fixed_allocation - Abs(acct_qty) * price) < price

\* C6: a get_session_token call that found a token in the shelf with the
\* clock strictly before its expiry returns that token, makes no login
\* request and leaves the shelf as it was (so the Notifier's call in the same
\* window returns main's token); any other call makes exactly one login
\* request.
CachedTokenReused ==
    pc = "gst_ret" =>
        LET hit == /\ entry.store.session_token # None
                   /\ entry.store.token_expiry # None
                   /\ entry.now < entry.store.token_expiry[1]
        IN  /\ hit => /\ ~gst_raised
                      /\ gst_result = entry.store.session_token
                      /\ logins = 0
                      /\ store = entry.store
            /\ (hit /\ caller = "notify" /\ session_token # None)
                   => gst_result = session_token
            /\ ~hit => logins = 1

\* The Notifier's call returned inside the expiry window of the token main
\* obtained.
SecondCallInWindow ==
    /\ pc = "gst_ret"
    /\ caller = "notify"
    /\ session_token # None
    /\ entry.store.token_expiry # None
    /\ entry.now < entry.store.token_expiry[1]

\* C7: in every state of the shelf, session_token and token_expiry are both
\* absent, or both present with token_expiry = issuance time of that token
\* + 24 hours.
StoreBothOrNeither ==
    \/ store = EmptyStore
    \/ /\ store.session_token # None
       /\ store.token_expiry # None
       /\ store.token_expiry[1] = issued[store.session_token[1]] + TokenTTL

\* C8: for the quantity and the price > 0 the policy read, shares is
\* floor(|target - |quantity| x price| / price), the action is no-op iff
\* shares = 0, and with shares > 0 it is buy when target - |quantity| x price
\* is positive and sell when it is negative.
RebalanceDecisionFormula ==
    (current_price > 0 /\ "policy" \notin failed) =>
        LET difference == fixed_allocation - Abs(quantity) * current_price
        IN  /\ shares_to_trade >= 0
            /\ shares_to_trade * current_price <= Abs(difference)
            /\ Abs(difference) < (shares_to_trade + 1) * current_price
            /\ action = NoAction <=> shares_to_trade = 0
            /\ shares_to_trade > 0 =>
                   /\ difference > 0 => action = "BUY"
                   /\ difference < 0 => action = "SELL"
                   /\ difference # 0

\* The policy decided on a short position below the target.
ShortPositionDecided ==
    current_price = 300 /\ quantity = -4 /\ action = "BUY" /\ shares_to_trade = 2

SellNeverExceedsHolding ==
    /\ (current_price > 0 /\ quantity >= 0 /\ action = "SELL")
           => shares_to_trade <= quantity
    /\ (filled /\ quantity >= 0 /\ order # None /\ action = "SELL")
           => /\ order[1].action = "Sell to Close"
              /\ acct_qty >= 0

\* The sell order of a long position has filled.
LongSellFilled ==
    filled /\ quantity > 0 /\ action = "SELL" /\ order # None

====
